---- MODULE Spec2Model ----
(***************************************************************************)
(* Model of testcontainers-modules: the lazily initialised container        *)
(* registry of src/lib.rs (tokio OnceCell<RwLock<Option<Container>>> per    *)
(* service kind, the consumers and the #[dtor] shutdown hook), the K3s      *)
(* descriptor builder and version resolver of src/k3s.rs, and the Gitea     *)
(* descriptor builder of src/gitea.rs.                                      *)
(***************************************************************************)
EXTENDS Integers, Sequences, FiniteSets, TLC

VARIABLES
    useExisting,    \* CARGO_USE_EXISTING_K8S_CONTEXT is set in the environment
    cell,           \* per kind: OnceCell value_set flag, "unset" | "set"
    permit,         \* per kind: holder of the OnceCell semaphore permit, 0 = free
    slot,           \* per kind: the Option inside the RwLock, 0 = None, else container id
    readers,        \* per kind: callers holding a read guard of the RwLock
    writer,         \* per kind: the hook holds the write guard
    writerWaiting,  \* per kind: the hook is queued for the write guard
    pc,             \* per caller: position in get_test_gitea_hostname / get_test_kube_client
    ckind,          \* per caller: which entry point it called
    res,            \* per caller: what the call produced
    nStarts,        \* per kind: executions of the init closure (start sequence)
    nFailed,        \* per kind: start sequences that ended in an Err
    cont,           \* per kind: sequence of container states, one per container created
    stopCalls,      \* per kind: calls of ContainerAsync::stop by the hook
    rmCalls,        \* per kind: calls of ContainerAsync::rm by the hook
    takes,          \* per kind: times the hook took the container out of the slot
    hookPc,         \* position of shutdown_test_containers
    hookKind,       \* kind the hook is working on
    hookOld,        \* the hook's local `old`, 0 = none
    hookLock,       \* the hook's static LOCK is held
    verIn, verOut, verOutV,          \* version resolver: input, result, result for "v" + input
    k3s, k3sPc, k3sCmd, k3sPorts,    \* K3s descriptor under construction, builder position, cmd(), expose_ports()
    applied, lastOp,                 \* last value requested per K3s option; last builder call
    gitea, giteaPc, giteaPorts,      \* Gitea descriptor, builder position, expose_ports()
    giteaCmds,                       \* exec_after_start() of the started Gitea descriptor
    kcDoc, kcPort, kcOut, kcPc       \* K3s::get_client: parsed kubeconfig, host port, rewritten kubeconfig, position

lifeVars == <<useExisting, cell, permit, slot, readers, writer, writerWaiting, pc, ckind, res,
              nStarts, nFailed, cont, stopCalls, rmCalls, takes, hookPc, hookKind, hookOld, hookLock>>
verVars == <<verIn, verOut, verOutV>>
k3sVars == <<k3s, k3sPc, k3sCmd, k3sPorts, applied, lastOp>>
giteaVars == <<gitea, giteaPc, giteaPorts, giteaCmds>>
kubeVars == <<kcDoc, kcPort, kcOut, kcPc>>
builderVars == <<verVars, k3sVars, giteaVars, kubeVars>>
vars == <<lifeVars, builderVars>>

----------------------------------------------------------------------------
(* Bounds *)

NCallers == 3

Callers == 1..NCallers

----------------------------------------------------------------------------
(* src/lib.rs: the registry *)

\* GIT_SERVER_CONTAINER and K3S_CLUSTER_CONTAINER
Kinds == {"git", "k3s"}

None == 0

NoRes == [st |-> "none", h |-> 0]

\* OnceCell::initialized
Initialized_reinit(k) == cell[k] = "set" /\ slot[k] # None

Initialized(k) == cell[k] = "set"


SetCont(k, id, s) == [cont EXCEPT ![k][id] = s]

InitLife ==
    /\ useExisting \in BOOLEAN
    /\ cell = [k \in Kinds |-> "unset"]
    /\ permit = [k \in Kinds |-> 0]
    /\ slot = [k \in Kinds |-> None]
    /\ readers = [k \in Kinds |-> {}]
    /\ writer = [k \in Kinds |-> FALSE]
    /\ writerWaiting = [k \in Kinds |-> FALSE]
    /\ pc = [c \in Callers |-> "idle"]
    /\ ckind = [c \in Callers |-> "git"]
    /\ res = [c \in Callers |-> NoRes]
    /\ nStarts = [k \in Kinds |-> 0]
    /\ nFailed = [k \in Kinds |-> 0]
    /\ cont = [k \in Kinds |-> <<>>]
    /\ stopCalls = [k \in Kinds |-> 0]
    /\ rmCalls = [k \in Kinds |-> 0]
    /\ takes = [k \in Kinds |-> 0]
    /\ hookPc = "idle"
    /\ hookKind = "k3s"
    /\ hookOld = None
    /\ hookLock = FALSE

hookVars == <<hookPc, hookKind, hookOld, hookLock, stopCalls, rmCalls, takes>>

\* get_test_gitea_hostname: the call enters start_git_server
CallGitea(c) ==
    /\ pc[c] = "idle"
    /\ pc' = [pc EXCEPT ![c] = "get_or_init"]
    /\ ckind' = [ckind EXCEPT ![c] = "git"]
    /\ UNCHANGED <<useExisting, cell, permit, slot, readers, writer, writerWaiting, res,
                   nStarts, nFailed, cont, hookVars, builderVars>>

\* get_test_kube_client with the override unset: the call enters start_k3s_cluster
CallKube(c) ==
    /\ pc[c] = "idle"
    /\ ~useExisting
    /\ pc' = [pc EXCEPT ![c] = "get_or_init"]
    /\ ckind' = [ckind EXCEPT ![c] = "k3s"]
    /\ UNCHANGED <<useExisting, cell, permit, slot, readers, writer, writerWaiting, res,
                   nStarts, nFailed, cont, hookVars, builderVars>>

\* get_test_kube_client with the override set: Client::try_default, Ok or Err, no registry access
CallKubeExisting(c) ==
    /\ pc[c] = "idle"
    /\ useExisting
    /\ \E ok \in BOOLEAN :
          res' = [res EXCEPT ![c] = [st |-> IF ok THEN "ambient" ELSE "err", h |-> 0]]
    /\ pc' = [pc EXCEPT ![c] = "done"]
    /\ ckind' = [ckind EXCEPT ![c] = "k3s"]
    /\ UNCHANGED <<useExisting, cell, permit, slot, readers, writer, writerWaiting,
                   nStarts, nFailed, cont, hookVars, builderVars>>

\* OnceCell::get_or_init, the cell is initialized: return the stored RwLock
GetOrInitReady(c) ==
    /\ pc[c] = "get_or_init"
    /\ Initialized(ckind[c])
    /\ pc' = [pc EXCEPT ![c] = "have_cell"]
    /\ UNCHANGED <<useExisting, cell, permit, slot, readers, writer, writerWaiting, ckind, res,
                   nStarts, nFailed, cont, hookVars, builderVars>>

\* OnceCell::get_or_init, the cell is not initialized: take the semaphore permit
\* and begin the init closure (the start sequence)
GetOrInitAcquire(c) ==
    /\ pc[c] = "get_or_init"
    /\ ~Initialized(ckind[c])
    /\ permit[ckind[c]] = 0
    /\ permit' = [permit EXCEPT ![ckind[c]] = c]
    /\ nStarts' = [nStarts EXCEPT ![ckind[c]] = @ + 1]
    /\ pc' = [pc EXCEPT ![c] = "closure"]
    /\ UNCHANGED <<useExisting, cell, slot, readers, writer, writerWaiting, ckind, res,
                   nFailed, cont, hookVars, builderVars>>

\* run_git_server / run_k3s_cluster: the runtime creates and starts the container
CreateOk(c) ==
    /\ pc[c] = "closure"
    /\ cont' = [cont EXCEPT ![ckind[c]] = Append(@, "created")]
    /\ pc' = [pc EXCEPT ![c] = "created"]
    /\ UNCHANGED <<useExisting, cell, permit, slot, readers, writer, writerWaiting, ckind, res,
                   nStarts, nFailed, hookVars, builderVars>>

\* the Err of the start sequence reaches .unwrap() in the init closure: the
\* caller's task panics, the permit is dropped, the cell stays unset
Unwind(c) ==
    /\ permit' = [permit EXCEPT ![ckind[c]] = 0]
    /\ nFailed' = [nFailed EXCEPT ![ckind[c]] = @ + 1]
    /\ pc' = [pc EXCEPT ![c] = "panicked"]
    /\ res' = [res EXCEPT ![c] = [st |-> "panic", h |-> 0]]

\* container create/start fails
CreateFail(c) ==
    /\ pc[c] = "closure"
    /\ Unwind(c)
    /\ UNCHANGED <<useExisting, cell, slot, readers, writer, writerWaiting, ckind,
                   nStarts, cont, hookVars, builderVars>>

\* the readiness wait and the post-start commands succeed: set_value stores
\* RwLock::new(Some(container)) and releases the waiters
ReadyOk(c) ==
    /\ pc[c] = "created"
    /\ LET k == ckind[c]
           id == Len(cont[k])
       IN /\ cont' = SetCont(k, id, "running")
          /\ slot' = [slot EXCEPT ![k] = id]
          /\ cell' = [cell EXCEPT ![k] = "set"]
          /\ permit' = [permit EXCEPT ![k] = 0]
    /\ pc' = [pc EXCEPT ![c] = "have_cell"]
    /\ UNCHANGED <<useExisting, readers, writer, writerWaiting, ckind, res,
                   nStarts, nFailed, hookVars, builderVars>>

\* the readiness wait times out or a post-start command exits non-zero: start()
\* returns Err, the created container is dropped with the failed start
ReadyFail(c) ==
    /\ pc[c] = "created"
    /\ cont' = SetCont(ckind[c], Len(cont[ckind[c]]), "dropped")
    /\ Unwind(c)
    /\ UNCHANGED <<useExisting, cell, slot, readers, writer, writerWaiting, ckind,
                   nStarts, hookVars, builderVars>>

\* RwLock::read: granted when no writer holds or waits for the lock
ReadLock(c) ==
    /\ pc[c] = "have_cell"
    /\ ~writer[ckind[c]]
    /\ ~writerWaiting[ckind[c]]
    /\ readers' = [readers EXCEPT ![ckind[c]] = @ \cup {c}]
    /\ pc' = [pc EXCEPT ![c] = "reading"]
    /\ UNCHANGED <<useExisting, cell, permit, slot, writer, writerWaiting, ckind, res,
                   nStarts, nFailed, cont, hookVars, builderVars>>

\* .as_ref().unwrap() then get_host / K3s::get_client under the read guard:
\* panic on None, else Ok with the container or Err; the guard is dropped
UseHandle(c) ==
    /\ pc[c] = "reading"
    /\ LET k == ckind[c]
       IN /\ readers' = [readers EXCEPT ![k] = @ \ {c}]
          /\ IF slot[k] = None
             THEN /\ pc' = [pc EXCEPT ![c] = "panicked"]
                  /\ res' = [res EXCEPT ![c] = [st |-> "panic", h |-> 0]]
             ELSE /\ pc' = [pc EXCEPT ![c] = "done"]
                  /\ \E ok \in BOOLEAN :
                        res' = [res EXCEPT ![c] = IF ok THEN [st |-> "ok", h |-> slot[k]]
                                                        ELSE [st |-> "err", h |-> 0]]
    /\ UNCHANGED <<useExisting, cell, permit, slot, writer, writerWaiting, ckind,
                   nStarts, nFailed, cont, hookVars, builderVars>>

callerVars == <<useExisting, cell, permit, pc, ckind, res, nStarts, nFailed>>

\* the destructor fires at process exit: the hook's thread takes LOCK
HookFire ==
    /\ hookPc = "idle"
    /\ ~hookLock
    /\ hookLock' = TRUE
    /\ hookPc' = "get"
    /\ hookKind' = "k3s"
    /\ UNCHANGED <<builderVars, callerVars, slot, readers, writer, writerWaiting, cont,
                   hookOld, stopCalls, rmCalls, takes>>

\* the kind after k in the hook: k3s first, then gitea, then the end
HookNext(k) == IF k = "k3s" THEN [p |-> "get", k |-> "git"] ELSE [p |-> "done", k |-> "git"]

\* if let Some(..) = CONTAINER.get(): queue for the write guard, or skip the kind
HookGet ==
    /\ hookPc = "get"
    /\ IF Initialized(hookKind)
       THEN /\ writerWaiting' = [writerWaiting EXCEPT ![hookKind] = TRUE]
            /\ hookPc' = "write"
            /\ UNCHANGED <<hookKind, hookLock>>
       ELSE /\ hookPc' = HookNext(hookKind).p
            /\ hookKind' = HookNext(hookKind).k
            /\ hookLock' = (HookNext(hookKind).p # "done")
            /\ UNCHANGED writerWaiting
    /\ UNCHANGED <<builderVars, callerVars, slot, readers, writer, cont, hookOld, stopCalls, rmCalls, takes>>

HookWrite_nowait ==
    /\ hookPc = "write"
    /\ writer' = [writer EXCEPT ![hookKind] = TRUE]
    /\ writerWaiting' = [writerWaiting EXCEPT ![hookKind] = FALSE]
    /\ hookPc' = "locked"
    /\ UNCHANGED <<builderVars, callerVars, slot, readers, cont, hookKind, hookOld, hookLock,
                   stopCalls, rmCalls, takes>>

\* RwLock::write is granted once no reader holds the lock
HookWrite ==
    /\ hookPc = "write"
    /\ readers[hookKind] = {}
    /\ writer' = [writer EXCEPT ![hookKind] = TRUE]
    /\ writerWaiting' = [writerWaiting EXCEPT ![hookKind] = FALSE]
    /\ hookPc' = "locked"
    /\ UNCHANGED <<builderVars, callerVars, slot, readers, cont, hookKind, hookOld, hookLock,
                   stopCalls, rmCalls, takes>>

\* if k.is_some() { let old = (*k).take().unwrap(); .. }: take empties the slot
HookTake ==
    /\ hookPc = "locked"
    /\ IF slot[hookKind] # None
       THEN /\ hookOld' = slot[hookKind]
            /\ slot' = [slot EXCEPT ![hookKind] = None]
            /\ takes' = [takes EXCEPT ![hookKind] = @ + 1]
            /\ hookPc' = "stop"
            /\ UNCHANGED <<writer, hookKind, hookLock>>
       ELSE /\ writer' = [writer EXCEPT ![hookKind] = FALSE]
            /\ hookPc' = HookNext(hookKind).p
            /\ hookKind' = HookNext(hookKind).k
            /\ hookLock' = (HookNext(hookKind).p # "done")
            /\ UNCHANGED <<slot, takes, hookOld>>
    /\ UNCHANGED <<builderVars, callerVars, readers, writerWaiting, cont, stopCalls, rmCalls>>

\* a panic in the hook's thread: the guards and `old` are dropped, the thread
\* ends, join() returns Err and the hook returns
HookUnwind ==
    /\ writer' = [writer EXCEPT ![hookKind] = FALSE]
    /\ cont' = SetCont(hookKind, hookOld, "dropped")
    /\ hookOld' = None
    /\ hookLock' = FALSE
    /\ hookPc' = "panicked"

\* old.stop().await.unwrap()
HookStop ==
    /\ hookPc = "stop"
    /\ stopCalls' = [stopCalls EXCEPT ![hookKind] = @ + 1]
    /\ \E ok \in BOOLEAN :
          IF ok
          THEN /\ cont' = SetCont(hookKind, hookOld, "stopped")
               /\ hookPc' = "rm"
               /\ UNCHANGED <<writer, hookOld, hookLock>>
          ELSE HookUnwind
    /\ UNCHANGED <<builderVars, callerVars, slot, readers, writerWaiting, hookKind, rmCalls, takes>>

\* old.rm().await.unwrap()
HookRm ==
    /\ hookPc = "rm"
    /\ rmCalls' = [rmCalls EXCEPT ![hookKind] = @ + 1]
    /\ \E ok \in BOOLEAN :
          IF ok
          THEN /\ cont' = SetCont(hookKind, hookOld, "removed")
               /\ hookPc' = "clear"
               /\ UNCHANGED <<writer, hookOld, hookLock>>
          ELSE HookUnwind
    /\ UNCHANGED <<builderVars, callerVars, slot, readers, writerWaiting, hookKind, stopCalls, takes>>

\* *k = None; the write guard is dropped at the end of the block
HookClear ==
    /\ hookPc = "clear"
    /\ slot' = [slot EXCEPT ![hookKind] = None]
    /\ writer' = [writer EXCEPT ![hookKind] = FALSE]
    /\ hookOld' = None
    /\ hookPc' = HookNext(hookKind).p
    /\ hookKind' = HookNext(hookKind).k
    /\ hookLock' = (HookNext(hookKind).p # "done")
    /\ UNCHANGED <<builderVars, callerVars, readers, writerWaiting, cont, stopCalls, rmCalls, takes>>

NextLife ==
    \/ \E c \in Callers : CallGitea(c)
    \/ \E c \in Callers : CallKube(c)
    \/ \E c \in Callers : CallKubeExisting(c)
    \/ \E c \in Callers : GetOrInitReady(c)
    \/ \E c \in Callers : GetOrInitAcquire(c)
    \/ \E c \in Callers : CreateOk(c)
    \/ \E c \in Callers : CreateFail(c)
    \/ \E c \in Callers : ReadyOk(c)
    \/ \E c \in Callers : ReadyFail(c)
    \/ \E c \in Callers : ReadLock(c)
    \/ \E c \in Callers : UseHandle(c)
    \/ HookFire
    \/ HookGet
    \/ HookWrite
    \/ HookTake
    \/ HookStop
    \/ HookRm
    \/ HookClear

----------------------------------------------------------------------------
(* src/k3s.rs: version resolution.  A version string is a sequence of      *)
(* characters, so that strip_prefix('v') acts on its first character.      *)

K3S_DEFAULT_KUBE_VERSION == <<"1", ".", "3", "1">>

AVAILABLE_K3S_IMAGE_TAGS ==
    << << <<"1", ".", "3", "1">>, "v1.31.1-k3s1" >>,
       << <<"1", ".", "3", "0">>, "v1.30.5-k3s1" >>,
       << <<"1", ".", "2", "9">>, "v1.29.9-k3s1" >>,
       << <<"1", ".", "2", "8">>, "v1.28.14-k3s1" >>,
       << <<"1", ".", "2", "7">>, "v1.27.16-k3s1" >>,
       << <<"1", ".", "2", "6">>, "v1.26.15-k3s1" >> >>

Latest == <<"l", "a", "t", "e", "s", "t">>

\* Result<String>: Ok(tag) or Err(Error::RuntimeConfig(message naming the version))
Ok(tag) == [st |-> "ok", tag |-> tag, msg |-> <<>>]
RuntimeConfig(version) == [st |-> "RuntimeConfig", tag |-> "", msg |-> version]
NoVer == [st |-> "none", tag |-> "", msg |-> <<>>]

\* str::strip_prefix('v'), falling back to the string itself
strip_prefix_v(version) ==
    IF Len(version) > 0 /\ Head(version) = "v" THEN Tail(version) ELSE version

version_to_tag_nostrip(version) ==
    LET v2 == IF version = <<>> \/ version = Latest THEN K3S_DEFAULT_KUBE_VERSION ELSE version
        hits == SelectSeq(AVAILABLE_K3S_IMAGE_TAGS, LAMBDA e : e[1] = v2)
    IN IF hits # <<>> THEN Ok(hits[1][2]) ELSE RuntimeConfig(v2)

version_to_tag(version) ==
    LET v1 == strip_prefix_v(version)
        v2 == IF v1 = <<>> \/ v1 = Latest THEN K3S_DEFAULT_KUBE_VERSION ELSE v1
        hits == SelectSeq(AVAILABLE_K3S_IMAGE_TAGS, LAMBDA e : e[1] = v2)
    IN IF hits # <<>> THEN Ok(hits[1][2]) ELSE RuntimeConfig(v2)

\* bounds of the version strings tried
MaxVerLen == 3
MaxV == 2

VerChars == {"v", "1", ".", "3"}

RECURSIVE StringsOver(_, _)
StringsOver(chars, n) ==
    IF n = 0 THEN {<<>>}
    ELSE LET shorter == StringsOver(chars, n - 1)
         IN shorter \cup {Append(s, ch) : s \in shorter, ch \in chars}

RECURSIVE Vs(_)
Vs(n) == IF n = 0 THEN <<>> ELSE <<"v">> \o Vs(n - 1)

VerBodies ==
    StringsOver(VerChars, MaxVerLen)
        \cup {AVAILABLE_K3S_IMAGE_TAGS[i][1] : i \in 1..Len(AVAILABLE_K3S_IMAGE_TAGS)}
        \cup {Latest, <<"1", ".", "1", "0">>, <<"-">>, <<"l", "a", "t", "e", "s", "t", "1">>}

VerInputs == {Vs(n) \o b : n \in 0..MaxV, b \in VerBodies}

InitVerIdle == verIn = <<>> /\ verOut = NoVer /\ verOutV = NoVer

InitVer == verIn \in VerInputs /\ verOut = NoVer /\ verOutV = NoVer

\* version_to_tag applied to the input and to "v" followed by the input
ResolveVersion ==
    /\ verOut.st = "none"
    /\ verOut' = version_to_tag(verIn)
    /\ verOutV' = version_to_tag(<<"v">> \o verIn)
    /\ UNCHANGED <<verIn, lifeVars, k3sVars, giteaVars, kubeVars>>

----------------------------------------------------------------------------
(* src/k3s.rs: the K3s descriptor and its builder *)

K3S_KUBE_API_PORT == 6443
K3S_TRAEFIK_HTTP_PORT == 80
K3S_RANCHER_WEBHOOK_PORT == 8443

\* K3sFeatures::default
K3sFeaturesDefault ==
    [snapshotter |-> "native", traefik |-> TRUE, network_policy |-> TRUE, coredns |-> TRUE,
     service_lb |-> TRUE, local_storage |-> TRUE, metrics_server |-> TRUE,
     helm_controller |-> TRUE, agent |-> TRUE]

\* K3s::default, with the default version resolved
K3sDefault ==
    [kubeconfig_mount |-> "OUT_DIR/k3s-runtime",
     tag |-> version_to_tag(K3S_DEFAULT_KUBE_VERSION).tag,
     features |-> K3sFeaturesDefault]

\* format!("--snapshotter={}", snapshotter)
SnapshotterFlag(snapshotter) ==
    CASE snapshotter = "native" -> "--snapshotter=native"
      [] snapshotter = "overlayfs" -> "--snapshotter=overlayfs"
      [] snapshotter = "fuse-overlayfs" -> "--snapshotter=fuse-overlayfs"

PushIf(cmd, cond, flag) == IF cond THEN Append(cmd, flag) ELSE cmd

into_iter_swapped(f) ==
    LET c0 == <<"server", SnapshotterFlag(f.snapshotter)>>
        c1 == PushIf(c0, ~f.traefik, "--disable=traefik")
        c2 == PushIf(c1, ~f.service_lb, "--disable=servicelb")
        c3 == PushIf(c2, ~f.coredns, "--disable=coredns")
        c4 == PushIf(c3, ~f.helm_controller, "--disable-helm-controller")
        c5 == PushIf(c4, ~f.agent, "--disable-agent")
        c6 == PushIf(c5, ~f.local_storage, "--disable=local-storage")
        c7 == PushIf(c6, ~f.metrics_server, "--disable=metrics-server")
    IN PushIf(c7, ~f.network_policy, "--disable-network-policy")

\* impl IntoIterator for &K3sFeatures: the container's command line
into_iter(f) ==
    LET c0 == <<"server", SnapshotterFlag(f.snapshotter)>>
        c1 == PushIf(c0, ~f.traefik, "--disable=traefik")
        c2 == PushIf(c1, ~f.service_lb, "--disable=servicelb")
        c3 == PushIf(c2, ~f.coredns, "--disable=coredns")
        c4 == PushIf(c3, ~f.agent, "--disable-agent")
        c5 == PushIf(c4, ~f.helm_controller, "--disable-helm-controller")
        c6 == PushIf(c5, ~f.local_storage, "--disable=local-storage")
        c7 == PushIf(c6, ~f.metrics_server, "--disable=metrics-server")
    IN PushIf(c7, ~f.network_policy, "--disable-network-policy")

\* Image::expose_ports for K3s
k3s_expose_ports(self) ==
    IF self.features.traefik
    THEN <<K3S_KUBE_API_PORT, K3S_RANCHER_WEBHOOK_PORT, K3S_TRAEFIK_HTTP_PORT>>
    ELSE <<K3S_KUBE_API_PORT, K3S_RANCHER_WEBHOOK_PORT>>

\* the single-option builders: struct update of one field
with_snapshotter(self, snapshotter) == [self EXCEPT !.features.snapshotter = snapshotter]
with_traefik(self, b) == [self EXCEPT !.features.traefik = b]
with_service_lb(self, b) == [self EXCEPT !.features.service_lb = b]
with_coredns(self, b) == [self EXCEPT !.features.coredns = b]
with_agent(self, b) == [self EXCEPT !.features.agent = b]
with_helm_controller(self, b) == [self EXCEPT !.features.helm_controller = b]
with_local_storage(self, b) == [self EXCEPT !.features.local_storage = b]
with_metrics_server(self, b) == [self EXCEPT !.features.metrics_server = b]
with_network_policy(self, b) == [self EXCEPT !.features.network_policy = b]
with_kubeconfig_folder(self, folder) == [self EXCEPT !.kubeconfig_mount = folder]

with_all_features_six(self, all_features) ==
    [self EXCEPT !.features.traefik = all_features,
                 !.features.service_lb = all_features,
                 !.features.coredns = all_features,
                 !.features.helm_controller = all_features,
                 !.features.network_policy = all_features,
                 !.features.local_storage = all_features]

\* K3s::with_all_features: the seven fields it names; agent and snapshotter
\* come from ..self.features
with_all_features(self, all_features) ==
    [self EXCEPT !.features.traefik = all_features,
                 !.features.service_lb = all_features,
                 !.features.coredns = all_features,
                 !.features.helm_controller = all_features,
                 !.features.network_policy = all_features,
                 !.features.local_storage = all_features,
                 !.features.metrics_server = all_features]

\* the options a single-option builder sets, with the builder of each
FeatureNames ==
    {"traefik", "service_lb", "coredns", "agent", "helm_controller", "local_storage",
     "metrics_server", "network_policy"}

with_feature(self, name, b) ==
    CASE name = "traefik" -> with_traefik(self, b)
      [] name = "service_lb" -> with_service_lb(self, b)
      [] name = "coredns" -> with_coredns(self, b)
      [] name = "agent" -> with_agent(self, b)
      [] name = "helm_controller" -> with_helm_controller(self, b)
      [] name = "local_storage" -> with_local_storage(self, b)
      [] name = "metrics_server" -> with_metrics_server(self, b)
      [] name = "network_policy" -> with_network_policy(self, b)

\* arguments tried
Snapshotters == {"native", "overlayfs"}
KubeVersionArgs ==
    {<<"1", ".", "3", "0">>, <<"v", "1", ".", "2", "7">>, <<>>, <<"1", ".", "1", "0">>, <<"-">>}
KubeconfigFolders == {"/tmp/kube"}

NoOp == [op |-> "none"]

InitK3sIdle ==
    /\ k3s = K3sDefault
    /\ k3sPc = "idle"
    /\ k3sCmd = <<>>
    /\ k3sPorts = <<>>
    /\ applied = K3sFeaturesDefault
    /\ lastOp = NoOp

\* K3s::default()
InitK3s ==
    /\ k3s = K3sDefault
    /\ k3sPc = "building"
    /\ k3sCmd = <<>>
    /\ k3sPorts = <<>>
    /\ applied = K3sFeaturesDefault
    /\ lastOp = NoOp

k3sOther == <<lifeVars, verVars, giteaVars, kubeVars>>

\* K3s::with_kube_version: version_to_tag(version).unwrap()
WithKubeVersion(version) ==
    /\ k3sPc = "building"
    /\ LET r == version_to_tag(version)
       IN IF r.st = "ok"
          THEN k3s' = [k3s EXCEPT !.tag = r.tag] /\ k3sPc' = "building"
          ELSE k3s' = k3s /\ k3sPc' = "panicked"
    /\ lastOp' = [op |-> "with_kube_version", version |-> version, prev |-> k3s]
    /\ UNCHANGED <<k3sCmd, k3sPorts, applied, k3sOther>>

WithSnapshotter(snapshotter) ==
    /\ k3sPc = "building"
    /\ k3s' = with_snapshotter(k3s, snapshotter)
    /\ applied' = [applied EXCEPT !.snapshotter = snapshotter]
    /\ lastOp' = [op |-> "with_snapshotter", prev |-> k3s]
    /\ UNCHANGED <<k3sPc, k3sCmd, k3sPorts, k3sOther>>

\* with_traefik .. with_network_policy
WithFeature(name, b) ==
    /\ k3sPc = "building"
    /\ k3s' = with_feature(k3s, name, b)
    /\ applied' = [applied EXCEPT ![name] = b]
    /\ lastOp' = [op |-> "with_feature", name |-> name, all |-> b, prev |-> k3s]
    /\ UNCHANGED <<k3sPc, k3sCmd, k3sPorts, k3sOther>>

WithAllFeatures(b) ==
    /\ k3sPc = "building"
    /\ k3s' = with_all_features(k3s, b)
    /\ applied' = [n \in DOMAIN applied |->
                      IF n \in {"traefik", "service_lb", "coredns", "helm_controller",
                                "network_policy", "local_storage", "metrics_server"}
                      THEN b ELSE applied[n]]
    /\ lastOp' = [op |-> "with_all_features", all |-> b, prev |-> k3s]
    /\ UNCHANGED <<k3sPc, k3sCmd, k3sPorts, k3sOther>>

WithKubeconfigFolder(folder) ==
    /\ k3sPc = "building"
    /\ k3s' = with_kubeconfig_folder(k3s, folder)
    /\ lastOp' = [op |-> "with_kubeconfig_folder", prev |-> k3s]
    /\ UNCHANGED <<k3sPc, k3sCmd, k3sPorts, applied, k3sOther>>

\* .start(): the runner reads cmd() and expose_ports() of the finished
\* descriptor and creates the container
StartK3s ==
    /\ k3sPc = "building"
    /\ k3sCmd' = into_iter(k3s.features)
    /\ k3sPorts' = k3s_expose_ports(k3s)
    /\ k3sPc' = "started"
    /\ UNCHANGED <<k3s, applied, lastOp, k3sOther>>

----------------------------------------------------------------------------
(* src/gitea.rs: the Gitea descriptor and its builder *)

GITEA_SSH_PORT == 2222
GITEA_HTTP_PORT == 3000
GITEA_HTTP_REDIRECT_PORT == 3080

GITEA_DEFAULT_ADMIN_USERNAME == "git-admin"
GITEA_DEFAULT_ADMIN_PASSWORD == "git-admin"

\* Option<GiteaTlsCert>::None, and Option<String>::None of admin_key
NoTls == [some |-> FALSE, cert |-> "", key |-> "", ca |-> ""]
NoKey == ""

\* GiteaTlsCert::default(): a generated certificate with its CA
GiteaTlsCertDefault == [some |-> TRUE, cert |-> "generated-cert", key |-> "generated-key", ca |-> "generated-ca"]

\* GiteaTlsCert::from_pem: the caller's certificate, no CA
from_pem(cert, key) == [some |-> TRUE, cert |-> cert, key |-> key, ca |-> ""]

\* Gitea::default
GiteaDefault ==
    [admin_username |-> GITEA_DEFAULT_ADMIN_USERNAME,
     admin_password |-> GITEA_DEFAULT_ADMIN_PASSWORD,
     admin_key |-> NoKey,
     admin_commands |-> <<>>,
     config_env |-> <<>>,
     tls |-> NoTls,
     hostname |-> "localhost",
     repos |-> <<>>]

expose_ports_either(self) ==
    IF self.tls.some
    THEN <<GITEA_SSH_PORT, GITEA_HTTP_PORT>>
    ELSE <<GITEA_SSH_PORT, GITEA_HTTP_REDIRECT_PORT>>

\* Image::expose_ports for Gitea
expose_ports(self) ==
    IF self.tls.some
    THEN <<GITEA_SSH_PORT, GITEA_HTTP_PORT, GITEA_HTTP_REDIRECT_PORT>>
    ELSE <<GITEA_SSH_PORT, GITEA_HTTP_REDIRECT_PORT>>

\* Gitea::protocol
protocol(self) == IF self.tls.some THEN "https" ELSE "http"

\* api.strip_prefix('/').unwrap_or(api), for the two paths the commands use
StripSlash(api) ==
    CASE api = "/user/keys" -> "user/keys"
      [] api = "/user/repos" -> "user/repos"

\* Gitea::api_url
api_url(self, api) ==
    protocol(self) \o "://localhost:" \o ToString(GITEA_HTTP_PORT) \o "/api/v1/" \o StripSlash(api)

\* Gitea::create_admin_user_cmd
create_admin_user_cmd(self) ==
    <<"gitea", "admin", "user", "create", "--username", self.admin_username,
      "--password", self.admin_password, "--email", self.admin_username \o "@localhost", "--admin">>

\* Gitea::create_admin_key_cmd
create_admin_key_cmd(self, key) ==
    <<"curl", "-sk", "-X", "POST", "-H", "accept: application/json",
      "-H", "Content-Type: application/json",
      "-u", self.admin_username \o ":" \o self.admin_password,
      "-d", "{\"title\":\"default\",\"key\":\"" \o key \o "\",\"read_only\":false}",
      api_url(self, "/user/keys")>>

\* Gitea::create_repo_cmd
create_repo_cmd(self, repo) ==
    LET private == IF repo.vis = "Private" THEN "true" ELSE "false"
    IN <<"curl", "-sk", "-X", "POST", "-H", "accept: application/json",
         "-H", "Content-Type: application/json",
         "-u", self.admin_username \o ":" \o self.admin_password,
         "-d", "{\"name\":\"" \o repo.name \o "\",\"readme\":\"Default\",\"auto_init\":true,\"private\":"
                   \o private \o "}",
         api_url(self, "/user/repos")>>

\* ExecCommand::new(v).with_cmd_ready_condition(CmdWaitFor::exit_code(0))
ExecCommand(v) == [cmd |-> v, exit_code |-> 0]

MapSeq(seq, Op(_)) == [i \in 1..Len(seq) |-> Op(seq[i])]

exec_after_start_admin_first(self) ==
    LET c0 == <<create_admin_user_cmd(self)>>
        c1 == IF self.admin_key # NoKey THEN Append(c0, create_admin_key_cmd(self, self.admin_key)) ELSE c0
        admin == MapSeq(self.admin_commands, LAMBDA v : <<"gitea", "admin">> \o v)
        c2 == c1 \o admin
        c3 == c2 \o MapSeq(self.repos, LAMBDA r : create_repo_cmd(self, r))
    IN MapSeq(c3, ExecCommand)

\* Image::exec_after_start for Gitea
exec_after_start(self) ==
    LET c0 == <<create_admin_user_cmd(self)>>
        c1 == IF self.admin_key # NoKey THEN Append(c0, create_admin_key_cmd(self, self.admin_key)) ELSE c0
        c2 == c1 \o MapSeq(self.repos, LAMBDA r : create_repo_cmd(self, r))
        admin_commands == MapSeq(self.admin_commands, LAMBDA v : <<"gitea", "admin">> \o v)
        start_commands == c2 \o admin_commands
    IN MapSeq(start_commands, ExecCommand)

with_admin_account(self, username, password, key) ==
    [self EXCEPT !.admin_username = username, !.admin_password = password, !.admin_key = key]
with_hostname(self, hostname) == [self EXCEPT !.hostname = hostname]
with_repo(self, repo) == [self EXCEPT !.repos = Append(@, repo)]
with_admin_command(self, command) == [self EXCEPT !.admin_commands = Append(@, command)]
with_tls(self, enabled) == [self EXCEPT !.tls = IF enabled THEN GiteaTlsCertDefault ELSE NoTls]
with_tls_certs(self, cert, key) == [self EXCEPT !.tls = from_pem(cert, key)]

\* HashMap::insert on config_env (a function from the keys present to their values)
with_config_env(self, key, value) == [self EXCEPT !.config_env = (key :> value) @@ @]

\* bounds of the lists a descriptor accumulates
MaxRepos == 2
MaxAdminCommands == 2

\* arguments tried
AdminNames == {"git-admin", "root"}
AdminKeys == {NoKey, "ssh-ed25519 AAAA"}
Hostnames == {"localhost", "gitea.test"}
RepoArgs == {[vis |-> "Private", name |-> "private-1"], [vis |-> "Public", name |-> "public-1"]}
AdminCommandArgs == {<<"user", "list">>, <<"auth", "list">>}
EnvKeys == {"GITEA__log__LEVEL"}
EnvValues == {"Info", "Debug"}

InitGiteaIdle == gitea = GiteaDefault /\ giteaPc = "idle" /\ giteaPorts = <<>> /\ giteaCmds = <<>>

\* Gitea::default()
InitGitea == gitea = GiteaDefault /\ giteaPc = "building" /\ giteaPorts = <<>> /\ giteaCmds = <<>>

giteaOther == <<lifeVars, verVars, k3sVars, kubeVars>>

WithAdminAccount(username, key) ==
    /\ giteaPc = "building"
    /\ gitea' = with_admin_account(gitea, username, username, key)
    /\ UNCHANGED <<giteaPc, giteaPorts, giteaCmds, giteaOther>>

WithHostname(hostname) ==
    /\ giteaPc = "building"
    /\ gitea' = with_hostname(gitea, hostname)
    /\ UNCHANGED <<giteaPc, giteaPorts, giteaCmds, giteaOther>>

WithRepo(repo) ==
    /\ giteaPc = "building"
    /\ Len(gitea.repos) < MaxRepos
    /\ gitea' = with_repo(gitea, repo)
    /\ UNCHANGED <<giteaPc, giteaPorts, giteaCmds, giteaOther>>

WithAdminCommand(command) ==
    /\ giteaPc = "building"
    /\ Len(gitea.admin_commands) < MaxAdminCommands
    /\ gitea' = with_admin_command(gitea, command)
    /\ UNCHANGED <<giteaPc, giteaPorts, giteaCmds, giteaOther>>

WithConfigEnv(key, value) ==
    /\ giteaPc = "building"
    /\ gitea' = with_config_env(gitea, key, value)
    /\ UNCHANGED <<giteaPc, giteaPorts, giteaCmds, giteaOther>>

WithTls(enabled) ==
    /\ giteaPc = "building"
    /\ gitea' = with_tls(gitea, enabled)
    /\ UNCHANGED <<giteaPc, giteaPorts, giteaCmds, giteaOther>>

WithTlsCerts ==
    /\ giteaPc = "building"
    /\ gitea' = with_tls_certs(gitea, "pem-cert", "pem-key")
    /\ UNCHANGED <<giteaPc, giteaPorts, giteaCmds, giteaOther>>

\* .start(): the runner reads expose_ports() and exec_after_start() of the
\* finished descriptor
StartGitea ==
    /\ giteaPc = "building"
    /\ giteaPorts' = expose_ports(gitea)
    /\ giteaCmds' = exec_after_start(gitea)
    /\ giteaPc' = "started"
    /\ UNCHANGED <<gitea, giteaOther>>

----------------------------------------------------------------------------
(* src/k3s.rs: K3s::get_client, the rewrite of the kubeconfig *)

K3S_KUBECONFIG_PORT == 9443

\* Option<String>::None of Cluster::server, Option<Cluster>::None of NamedCluster::cluster
NoServer == [some |-> FALSE, v |-> ""]
NoCluster == [some |-> FALSE, server |-> NoServer, ca |-> ""]

SomeServer(url) == [some |-> TRUE, v |-> url]
SomeCluster(server) == [some |-> TRUE, server |-> server, ca |-> "ca-data"]

\* Kubeconfig: the named clusters and the fields the rewrite does not touch
Kubeconfig(clusters) ==
    [clusters |-> clusters, users |-> <<"default">>, contexts |-> <<"default">>,
     current_context |-> "default"]

\* format!("https://127.0.0.1:{}", port)
ServerUrl(port) == "https://127.0.0.1:" \o ToString(port)

rewrite_servers_first(config, port) ==
    [config EXCEPT !.clusters =
        [i \in 1..Len(@) |->
            IF i = 1 /\ @[i].cluster.some /\ @[i].cluster.server.some
            THEN [@[i] EXCEPT !.cluster.server.v = ServerUrl(port)]
            ELSE @[i]]]

\* config.clusters.iter_mut().for_each(..): the server of every entry that has
\* a cluster body with a server
rewrite_servers(config, port) ==
    [config EXCEPT !.clusters =
        MapSeq(@, LAMBDA cluster :
                      IF cluster.cluster.some /\ cluster.cluster.server.some
                      THEN [cluster EXCEPT !.cluster.server.v = ServerUrl(port)]
                      ELSE cluster)]

\* bound of the number of cluster entries in a kubeconfig
MaxClusters == 2

\* documents and ports tried
ClusterNames == {"default", "other"}
ServerArgs == {NoServer, SomeServer("https://127.0.0.1:6443"), SomeServer("http://k3s.local:6443")}
ClusterBodies == {NoCluster} \cup {SomeCluster(sv) : sv \in ServerArgs}
NamedClusters == {[name |-> n, cluster |-> b] : n \in ClusterNames, b \in ClusterBodies}
HostPorts == {K3S_KUBECONFIG_PORT, 32768}

InitKubeIdle ==
    /\ kcDoc = Kubeconfig(<<>>)
    /\ kcPort = 0
    /\ kcOut = Kubeconfig(<<>>)
    /\ kcPc = "idle"

\* get_kubeconfig and Kubeconfig::from_yaml have produced the document
InitKube ==
    /\ kcDoc \in {Kubeconfig(cs) : cs \in StringsOver(NamedClusters, MaxClusters)}
    /\ kcPort = 0
    /\ kcOut = kcDoc
    /\ kcPc = "parsed"

kubeOther == <<lifeVars, verVars, k3sVars, giteaVars>>

\* container.get_host_port_ipv4(K3S_KUBE_API_PORT).await? returns the port
GetHostPort(port) ==
    /\ kcPc = "parsed"
    /\ kcPort' = port
    /\ kcPc' = "port"
    /\ UNCHANGED <<kcDoc, kcOut, kubeOther>>

\* container.get_host_port_ipv4(K3S_KUBE_API_PORT).await? returns Err
GetHostPortErr ==
    /\ kcPc = "parsed"
    /\ kcPc' = "err"
    /\ UNCHANGED <<kcDoc, kcPort, kcOut, kubeOther>>

\* the for_each over config.clusters
RewriteServers ==
    /\ kcPc = "port"
    /\ kcOut' = rewrite_servers(kcOut, kcPort)
    /\ kcPc' = "rewritten"
    /\ UNCHANGED <<kcDoc, kcPort, kubeOther>>

\* Config::from_custom_kubeconfig and Client::try_from: a client or an Err
BuildClient(ok) ==
    /\ kcPc = "rewritten"
    /\ kcPc' = IF ok THEN "client" ELSE "err"
    /\ UNCHANGED <<kcDoc, kcPort, kcOut, kubeOther>>

----------------------------------------------------------------------------
(* Specifications *)

Init == InitLife /\ InitVerIdle /\ InitK3sIdle /\ InitGiteaIdle /\ InitKubeIdle

Next == NextLife

Spec == Init /\ [][Next]_vars

InitV == InitLife /\ useExisting = FALSE /\ InitVer /\ InitK3sIdle /\ InitGiteaIdle /\ InitKubeIdle

NextV == ResolveVersion

SpecVer == InitV /\ [][NextV]_vars

InitK == InitLife /\ useExisting = FALSE /\ InitVerIdle /\ InitK3s /\ InitGiteaIdle /\ InitKubeIdle

NextK ==
    \/ \E version \in KubeVersionArgs : WithKubeVersion(version)
    \/ \E snapshotter \in Snapshotters : WithSnapshotter(snapshotter)
    \/ \E name \in FeatureNames, b \in BOOLEAN : WithFeature(name, b)
    \/ \E b \in BOOLEAN : WithAllFeatures(b)
    \/ \E folder \in KubeconfigFolders : WithKubeconfigFolder(folder)
    \/ StartK3s

SpecK3s == InitK /\ [][NextK]_vars

InitG == InitLife /\ useExisting = FALSE /\ InitVerIdle /\ InitK3sIdle /\ InitGitea /\ InitKubeIdle

NextG ==
    \/ \E username \in AdminNames, key \in AdminKeys : WithAdminAccount(username, key)
    \/ \E hostname \in Hostnames : WithHostname(hostname)
    \/ \E repo \in RepoArgs : WithRepo(repo)
    \/ \E command \in AdminCommandArgs : WithAdminCommand(command)
    \/ \E key \in EnvKeys, value \in EnvValues : WithConfigEnv(key, value)
    \/ \E enabled \in BOOLEAN : WithTls(enabled)
    \/ WithTlsCerts
    \/ StartGitea

SpecGitea == InitG /\ [][NextG]_vars

InitC == InitLife /\ useExisting = FALSE /\ InitVerIdle /\ InitK3sIdle /\ InitGiteaIdle /\ InitKube

NextC ==
    \/ \E port \in HostPorts : GetHostPort(port)
    \/ GetHostPortErr
    \/ RewriteServers
    \/ \E ok \in BOOLEAN : BuildClient(ok)

SpecKube == InitC /\ [][NextC]_vars

----------------------------------------------------------------------------
(* Properties of the registry *)

Handed(c) == res[c].st = "ok"

\* C1: for each service kind, any number of concurrent callers cause exactly
\* one execution of the start sequence (one container creation), and all
\* callers that receive a handle receive the same container.
C1_ExactlyOneStart ==
    \A k \in Kinds :
        /\ nStarts[k] <= 1
        /\ Len(cont[k]) <= 1
        /\ \A c, d \in Callers :
              (ckind[c] = k /\ ckind[d] = k /\ Handed(c) /\ Handed(d)) => res[c].h = res[d].h

\* C2: when the start sequence of a kind fails, the slot is never marked Ready,
\* every caller of that kind that has finished observed the failure as an error
\* result, and no caller executes a second start sequence for the kind.
C2_FailureShared ==
    \A k \in Kinds :
        nFailed[k] > 0 =>
            /\ cell[k] = "unset"
            /\ nStarts[k] = 1
            /\ \A c \in Callers :
                  (ckind[c] = k /\ pc[c] \in {"done", "panicked"}) => res[c].st = "err"

HookReturned == hookPc \in {"done", "panicked"}

\* C3: the hook stops, then removes, then clears: a container is removed only
\* after it was stopped, each at most once; a slot is never observable empty
\* (write guard released) while its container is not stopped and removed; and
\* the hook returns with every container it took out of a slot removed.
C3_StopRemoveClear ==
    \A k \in Kinds :
        /\ stopCalls[k] <= 1
        /\ rmCalls[k] <= 1
        /\ rmCalls[k] <= stopCalls[k]
        /\ (Initialized(k) /\ slot[k] = None /\ ~writer[k]) =>
               (Len(cont[k]) > 0 /\ cont[k][Len(cont[k])] = "removed")
        /\ (HookReturned /\ takes[k] > 0) => cont[k][Len(cont[k])] = "removed"

\* C4: once the hook has taken the container out of a slot, the slot stays
\* initialized and empty, no start sequence runs and no container is created
\* for that kind again, and the hook never takes from that slot a second time.
C4_NoReinit ==
    [][\A k \in Kinds :
          takes[k] > 0 =>
              /\ nStarts'[k] = nStarts[k]
              /\ Len(cont'[k]) = Len(cont[k])
              /\ takes'[k] = 1
              /\ cell'[k] = "set"
              /\ slot'[k] = None]_vars

\* a consumer of the git server ran into the emptied slot after the teardown,
\* and there is still only the one container
C4_Witness ==
    /\ takes["git"] = 1
    /\ cont["git"] = <<"removed">>
    /\ nStarts["git"] = 1
    /\ \E c \in Callers : ckind[c] = "git" /\ pc[c] = "panicked" /\ res[c].st = "panic"

\* C5: with the override set no k3s start sequence runs, no k3s container is
\* created and the k3s cell stays uninitialized; with it unset, calls create
\* exactly one cluster container.
C5_Override ==
    /\ useExisting =>
          /\ nStarts["k3s"] = 0
          /\ cont["k3s"] = <<>>
          /\ cell["k3s"] = "unset"
          /\ permit["k3s"] = 0
    /\ ~useExisting =>
          /\ Len(cont["k3s"]) <= 1
          /\ \A c \in Callers : (ckind[c] = "k3s" /\ Handed(c)) => Len(cont["k3s"]) = 1

StartInProgress(k) == \E c \in Callers : ckind[c] = k /\ pc[c] \in {"closure", "created"}

\* C11: the teardown does not race a start sequence in progress: while the
\* start sequence of a kind is in progress the hook does not move past that
\* kind (it neither skips the slot nor returns, leaving the container of that
\* start running).
C11_NoRaceWithStartup ==
    [][(hookPc = "get" /\ StartInProgress(hookKind)) => (hookPc' = "get" /\ hookKind' = hookKind)]_vars

\* C12: a failed stop or remove of one service is not retried, the hook still
\* returns, and the hook does not end at the failure while the other service,
\* not yet visited, has a Ready slot holding its container.
C12_TeardownFailureIsolated ==
    [][/\ \A k \in Kinds : stopCalls'[k] <= 1 /\ rmCalls'[k] <= 1
       /\ (hookPc \in {"stop", "rm"} /\ HookReturned' /\ hookKind = "k3s") =>
              ~(Initialized("git") /\ slot["git"] # None)]_vars

----------------------------------------------------------------------------
(* Properties of the version resolver and of the descriptors *)

Range(seq) == {seq[i] : i \in 1..Len(seq)}

VerKeys == {AVAILABLE_K3S_IMAGE_TAGS[i][1] : i \in 1..Len(AVAILABLE_K3S_IMAGE_TAGS)}

\* the documented normalisation: one leading "v" removed, then "" and "latest"
\* read as the default version
Normalized(s) ==
    LET t == IF s # <<>> /\ s[1] = "v" THEN SubSeq(s, 2, Len(s)) ELSE s
    IN IF t \in {<<>>, Latest} THEN K3S_DEFAULT_KUBE_VERSION ELSE t

\* what the resolver does apart from the "v" prefix law: every table key gives
\* its tag, "" and "latest" give the default version's tag, the result is Ok or
\* a RuntimeConfig error, and it is the error exactly when the input does not
\* normalise to a table key
VerTableAndErrors ==
    /\ \A i \in 1..Len(AVAILABLE_K3S_IMAGE_TAGS) :
          verIn = AVAILABLE_K3S_IMAGE_TAGS[i][1] => verOut = Ok(AVAILABLE_K3S_IMAGE_TAGS[i][2])
    /\ verIn \in {<<>>, Latest} => verOut = Ok("v1.31.1-k3s1")
    /\ verOut.st \in {"ok", "RuntimeConfig"}
    /\ verOut.st = "RuntimeConfig" <=> Normalized(verIn) \notin VerKeys
    /\ verOut.st = "RuntimeConfig" => verOut.msg = Normalized(verIn)

\* C6 (amended): version_to_tag is total; table keys, "" and "latest" resolve as
\* documented, unsupported strings give a RuntimeConfig error, and for every
\* string s that does not itself begin with "v", version_to_tag("v" + s) equals
\* version_to_tag(s).
C6_Resolve ==
    verOut.st # "none" =>
        /\ VerTableAndErrors
        /\ (verIn = <<>> \/ Head(verIn) # "v") => verOutV = verOut

\* C6 as claimed: the same, with version_to_tag("v" + s) = version_to_tag(s) for
\* every string s
C6_Original ==
    verOut.st # "none" =>
        /\ VerTableAndErrors
        /\ verOutV = verOut

\* "1.27" and "v1.27" both resolved to the tag of 1.27
C6_Witness ==
    /\ verIn = <<"1", ".", "2", "7">>
    /\ verOut = Ok("v1.27.16-k3s1")
    /\ verOutV = verOut

\* C7: with_kube_version with an unsupported version ends the build with a
\* configuration error outcome (not a panic), before any container is started.
C7_ConfigError ==
    (lastOp.op = "with_kube_version" /\ version_to_tag(lastOp.version).st = "RuntimeConfig") =>
        /\ k3sPc = "config_error"
        /\ k3sCmd = <<>>

DisableFlag(name) ==
    CASE name = "traefik" -> "--disable=traefik"
      [] name = "service_lb" -> "--disable=servicelb"
      [] name = "coredns" -> "--disable=coredns"
      [] name = "agent" -> "--disable-agent"
      [] name = "helm_controller" -> "--disable-helm-controller"
      [] name = "local_storage" -> "--disable=local-storage"
      [] name = "metrics_server" -> "--disable=metrics-server"
      [] name = "network_policy" -> "--disable-network-policy"

FlagOrder ==
    <<"traefik", "service_lb", "coredns", "agent", "helm_controller", "local_storage",
      "metrics_server", "network_policy">>

BulkFeatures == FeatureNames \ {"agent"}

\* C8 (amended): with_all_features(b) sets the seven features other than the
\* node agent to b and leaves the agent and the snapshotter as they were: the
\* command then has the disable flag of each of the seven when b is false and
\* of none of them when b is true, and --disable-agent exactly when the agent
\* was disabled before.
C8_AllFeatures ==
    (k3sPc = "started" /\ lastOp.op = "with_all_features") =>
        /\ \A n \in BulkFeatures : k3s.features[n] = lastOp.all
        /\ k3s.features.agent = lastOp.prev.features.agent
        /\ k3s.features.snapshotter = lastOp.prev.features.snapshotter
        /\ \A n \in BulkFeatures : (DisableFlag(n) \in Range(k3sCmd)) <=> ~lastOp.all
        /\ ("--disable-agent" \in Range(k3sCmd)) <=> ~lastOp.prev.features.agent

\* C8 as claimed: with_all_features(b) sets all eight features, the agent
\* included, to b
C8_Original ==
    (k3sPc = "started" /\ lastOp.op = "with_all_features") =>
        /\ \A n \in FeatureNames : k3s.features[n] = lastOp.all
        /\ \A n \in FeatureNames : (DisableFlag(n) \in Range(k3sCmd)) <=> ~lastOp.all

\* with_all_features(false) on a descriptor whose agent was enabled, started
C8_Witness ==
    /\ k3sPc = "started"
    /\ lastOp.op = "with_all_features"
    /\ ~lastOp.all
    /\ lastOp.prev.features.agent
    /\ Len(k3sCmd) = 9
    /\ "--disable-agent" \notin Range(k3sCmd)

ExpectedCmd(f) ==
    LET disabled == SelectSeq(FlagOrder, LAMBDA n : ~f[n])
    IN <<"server", SnapshotterFlag(f.snapshotter)>> \o [i \in 1..Len(disabled) |-> DisableFlag(disabled[i])]

\* C9: the command depends only on the last value given to each option, not
\* on the order of the with_* calls: it is "server", the snapshotter flag, then
\* one disable flag per disabled feature in the fixed order, and no flag of an
\* enabled feature.
C9_CmdDeterministic ==
    k3sPc = "started" =>
        /\ k3s.features = applied
        /\ k3sCmd = ExpectedCmd(applied)
        /\ \A n \in FeatureNames : (DisableFlag(n) \in Range(k3sCmd)) <=> ~applied[n]

\* the agent was disabled first and traefik after it; traefik's flag still
\* comes first
C9_Witness ==
    /\ k3sPc = "started"
    /\ lastOp.op = "with_feature"
    /\ lastOp.name = "traefik"
    /\ ~lastOp.prev.features.agent
    /\ ~lastOp.prev.features.helm_controller
    /\ lastOp.prev.features.traefik
    /\ applied.snapshotter = "overlayfs"
    /\ k3sCmd = <<"server", "--snapshotter=overlayfs", "--disable=traefik", "--disable-agent",
                  "--disable-helm-controller">>

\* C10 (amended): expose_ports has the SSH port and the plain-HTTP redirect
\* port always, and the web (HTTPS) port if and only if TLS is enabled.
C10_ExposePorts ==
    giteaPc = "started" =>
        /\ GITEA_SSH_PORT \in Range(giteaPorts)
        /\ GITEA_HTTP_REDIRECT_PORT \in Range(giteaPorts)
        /\ (GITEA_HTTP_PORT \in Range(giteaPorts)) <=> gitea.tls.some

\* C10 as claimed: the SSH port always, the redirect port if and only if TLS is
\* disabled, the web port if and only if TLS is enabled
C10_Original ==
    giteaPc = "started" =>
        /\ GITEA_SSH_PORT \in Range(giteaPorts)
        /\ (GITEA_HTTP_REDIRECT_PORT \in Range(giteaPorts)) <=> ~gitea.tls.some
        /\ (GITEA_HTTP_PORT \in Range(giteaPorts)) <=> gitea.tls.some

\* a descriptor with TLS enabled was started with all three ports exposed
C10_Witness ==
    /\ giteaPc = "started"
    /\ gitea.tls.some
    /\ giteaPorts = <<2222, 3000, 3080>>

IsCreateAdmin(c) == SubSeq(c.cmd, 1, 4) = <<"gitea", "admin", "user", "create">>
IsRegisterKey(c) == c.cmd[1] = "curl" /\ c.cmd[Len(c.cmd)] = protocol(gitea) \o "://localhost:3000/api/v1/user/keys"
IsCreateRepo(c) == c.cmd[1] = "curl" /\ c.cmd[Len(c.cmd)] = protocol(gitea) \o "://localhost:3000/api/v1/user/repos"

RepoPayload(repo) ==
    IF repo.vis = "Private"
    THEN "{\"name\":\"" \o repo.name \o "\",\"readme\":\"Default\",\"auto_init\":true,\"private\":true}"
    ELSE "{\"name\":\"" \o repo.name \o "\",\"readme\":\"Default\",\"auto_init\":true,\"private\":false}"

\* C13: the post-start commands are, in order: the create-admin-account command
\* (first, and nowhere else before the extra commands); the register-SSH-key
\* command if and only if an admin key was supplied; one create-repository
\* command per repository in the order of with_repo, with that repository's
\* private flag; each extra admin sub-command in the order of
\* with_admin_command, prefixed with "gitea admin"; every command requires
\* exit code 0.
C13_PostStartOrder ==
    giteaPc = "started" =>
        LET k == IF gitea.admin_key # NoKey THEN 1 ELSE 0
            nr == Len(gitea.repos)
            na == Len(gitea.admin_commands)
        IN /\ Len(giteaCmds) = 1 + k + nr + na
           /\ IsCreateAdmin(giteaCmds[1])
           /\ giteaCmds[1].cmd[6] = gitea.admin_username
           /\ giteaCmds[1].cmd[8] = gitea.admin_password
           /\ \A i \in 2..(1 + k + nr) : ~IsCreateAdmin(giteaCmds[i])
           /\ \A i \in 1..Len(giteaCmds) : IsRegisterKey(giteaCmds[i]) <=> (k = 1 /\ i = 2)
           /\ k = 1 => giteaCmds[2].cmd[12] =
                           "{\"title\":\"default\",\"key\":\"" \o gitea.admin_key \o "\",\"read_only\":false}"
           /\ \A i \in 1..nr :
                 /\ IsCreateRepo(giteaCmds[1 + k + i])
                 /\ giteaCmds[1 + k + i].cmd[12] = RepoPayload(gitea.repos[i])
           /\ \A j \in 1..na :
                 giteaCmds[1 + k + nr + j].cmd = <<"gitea", "admin">> \o gitea.admin_commands[j]
           /\ \A i \in 1..Len(giteaCmds) : giteaCmds[i].exit_code = 0

\* a descriptor with an admin key, a public then a private repository and two
\* extra admin commands was started: six commands
C13_Witness ==
    /\ giteaPc = "started"
    /\ gitea.admin_key # NoKey
    /\ gitea.repos = <<[vis |-> "Public", name |-> "public-1"], [vis |-> "Private", name |-> "private-1"]>>
    /\ gitea.admin_commands = <<<<"user", "list">>, <<"auth", "list">>>>
    /\ Len(giteaCmds) = 6
    /\ giteaCmds[6].cmd = <<"gitea", "admin", "auth", "list">>

Rewritten == kcPc \in {"rewritten", "client"}

\* everything of the document but the server of its cluster entries is as it was
KubeOtherFieldsKept ==
    /\ Len(kcOut.clusters) = Len(kcDoc.clusters)
    /\ \A i \in 1..Len(kcDoc.clusters) :
          /\ kcOut.clusters[i].name = kcDoc.clusters[i].name
          /\ kcOut.clusters[i].cluster.some = kcDoc.clusters[i].cluster.some
          /\ kcOut.clusters[i].cluster.ca = kcDoc.clusters[i].cluster.ca
          /\ kcOut.clusters[i].cluster.server.some = kcDoc.clusters[i].cluster.server.some
    /\ kcOut.users = kcDoc.users
    /\ kcOut.contexts = kcDoc.contexts
    /\ kcOut.current_context = kcDoc.current_context

HasServer(entry) == entry.cluster.some /\ entry.cluster.server.some

\* C14 (amended): after the rewrite every cluster entry that has a cluster
\* body with a server field has server URL exactly "https://127.0.0.1:P",
\* whatever scheme and host it had; an entry whose cluster body or server field
\* is absent is left as it was; no other field of the document is changed.
C14_KubeconfigRewrite ==
    Rewritten =>
        /\ KubeOtherFieldsKept
        /\ \A i \in 1..Len(kcOut.clusters) :
              IF HasServer(kcDoc.clusters[i])
              THEN kcOut.clusters[i].cluster.server.v = "https://127.0.0.1:" \o ToString(kcPort)
              ELSE kcOut.clusters[i] = kcDoc.clusters[i]

\* C14 as claimed: after the rewrite every cluster entry, also one whose cluster
\* body or server field was absent, has server URL "https://127.0.0.1:P", and
\* the names, users, contexts and current context are unchanged
C14_Original ==
    Rewritten =>
        /\ Len(kcOut.clusters) = Len(kcDoc.clusters)
        /\ \A i \in 1..Len(kcOut.clusters) :
              /\ kcOut.clusters[i].name = kcDoc.clusters[i].name
              /\ HasServer(kcOut.clusters[i])
              /\ kcOut.clusters[i].cluster.server.v = "https://127.0.0.1:" \o ToString(kcPort)
        /\ kcOut.users = kcDoc.users
        /\ kcOut.contexts = kcDoc.contexts
        /\ kcOut.current_context = kcDoc.current_context

\* a document with a plain-http server on another host and an entry without a
\* server was rewritten for port 32768
C14_Witness ==
    /\ kcPc = "rewritten"
    /\ kcPort = 32768
    /\ Len(kcDoc.clusters) = 2
    /\ kcDoc.clusters[1].cluster.server = SomeServer("http://k3s.local:6443")
    /\ kcOut.clusters[1].cluster.server = SomeServer("https://127.0.0.1:32768")
    /\ kcDoc.clusters[2].cluster.some
    /\ ~kcDoc.clusters[2].cluster.server.some
    /\ kcOut.clusters[2] = kcDoc.clusters[2]

\* a consumer holds the read guard of kind k: it is using the handle in the slot
InUse(k) == readers[k] # {}

\* C15: consumers hold the handle of a slot together, and only the hook takes
\* exclusive access: a write guard and read guards never coexist; while a
\* consumer uses the handle of a slot the slot keeps its container, the
\* container stays running and no take, stop or rm of that kind happens; a
\* filled slot changes only in a step of the hook, under its write guard, and
\* only to empty.
C15_SharedReadExclusiveHook ==
    [][\A k \in Kinds :
          /\ ~(writer'[k] /\ readers'[k] # {})
          /\ InUse(k) =>
                /\ slot'[k] = slot[k]
                /\ slot[k] # None => cont'[k][slot[k]] = "running"
                /\ takes'[k] = takes[k]
                /\ stopCalls'[k] = stopCalls[k]
                /\ rmCalls'[k] = rmCalls[k]
          /\ (slot[k] # None /\ slot'[k] # slot[k]) =>
                /\ slot'[k] = None
                /\ writer[k]
                /\ hookKind = k
                /\ hookPc = "locked"
                /\ pc' = pc]_vars

\* two consumers hold the read guard of the running Gitea container while the
\* hook is queued for the write guard
C15_Witness ==
    /\ Cardinality(readers["git"]) >= 2
    /\ slot["git"] # None
    /\ cont["git"][slot["git"]] = "running"
    /\ hookPc = "write"
    /\ hookKind = "git"
    /\ writerWaiting["git"]

====
